---- MODULE Spec2Model ----
(***************************************************************************)
(* Model of ipyrad/assemble/write_outfiles.py: the locus filtering and     *)
(* output step.  One behaviour is one call of one module-level function   *)
(* (run, make_outfiles, filter_stacks, get_edges, filter_minsamp,          *)
(* filter_maxhet); `entry` records which one the caller invoked.           *)
(*                                                                         *)
(* Python values are modelled as follows.                                  *)
(*  - a 3-d character array superseqs[locus][sample][site] is a sequence   *)
(*    of sequences of sequences of one-character strings;                  *)
(*  - an exception is the name of its class in `exc` ("none" = no          *)
(*    exception in flight);                                                *)
(*  - a Sample object and a str are records with a `kind` field, so that   *)
(*    a Sample never compares equal to a name;                             *)
(*  - None, as returned by dict.get for a missing key, is NoneVal: under   *)
(*    python 2.7 None orders below every number.                           *)
(***************************************************************************)
EXTENDS Integers, Sequences, FiniteSets, TLC

VARIABLES
    entry,          \* the function the caller invoked
    pc,             \* position in the code
    exc,            \* exception in flight or raised to the caller
    paramsdict,     \* data.paramsdict
    samples,        \* the `samples` argument / local (list of Sample)
    db,             \* the HDF5 database: nloci, chunksize, samples
    chunkdir,       \* <outfiles>/tmpchunks on disk: "absent" or "present"
    created,        \* os.mkdir(chunkdir) succeeded in this call
    sidx,           \* selected sample rows
    submitted,      \* loop counter of filter_all_clusters
    submitted_args, \* job queue of filter_all_clusters
    results,        \* what results.get() delivered
    canonical,      \* the merged .loci file
    todo,           \* output formats make_outfiles still has to visit
    invoked,        \* converters make_outfiles has called, in order
    inseqs,         \* the locus block as stored (argument before the call)
    superseqs,      \* the locus block local to the call (mutated in place)
    splits,         \* per-locus read1/read2 split columns, or unbound
    edges,          \* edge quadruples
    filters,        \* filter arrays and snp strings computed so far
    ret             \* value returned to the caller

vars == <<entry, pc, exc, paramsdict, samples, db, chunkdir, created, sidx,
          submitted, submitted_args, results, canonical, todo, invoked,
          inseqs, superseqs, splits, edges, filters, ret>>

(***************************************************************************)
(* Bounds of the explored inputs.                                          *)
(***************************************************************************)
MaxLoci == 3          \* total loci in the database (run)
MaxOptim == 2         \* chunk size stored in the database (run)
MaxSampleObjs == 2    \* Sample objects handed to run / make_outfiles
MaxSamples == 5       \* sample rows of a locus block
MaxSites == 2         \* site columns of a locus block (without separator)
MaxCells == 5         \* sample rows times site columns of a locus block
MaxChunk == 2         \* loci in a locus block
MaxColumn == 6        \* sample rows of a site column handed to ucount

(***************************************************************************)
(* Program constants.                                                      *)
(***************************************************************************)
ReadyState == 6         \* precheck: sample.stats.state < 6 is not ready
SepLen == 4             \* get_edges: r2s = ccx[idx, split+4:]
FourSamples == 4        \* get_edges: edgedict[2]
NoneVal == -1           \* edgedict.get(i) for i not in 2,3,4
FilterMaxsnpArgs == 4   \* filter_stacks calls filter_maxsnp with 4 args
FilterMaxsnpParams == 3
EdgeRowLen == 4       \* columns of the edges array (line 301)
LoopTargets == 2      \* names unpacked per row by "for idx, edg in edges" \* def filter_maxsnp(data, superseqs, edges)

OUTPUT_FORMATS == <<"alleles", "phy", "nex", "snps", "vcf", "usnps",
                    "str", "geno", "treemix", "migrate", "gphocs">>

AMBIGCODES == {"R", "S", "K", "Y", "W", "M"}

Names == {"s1", "s2"}

(***************************************************************************)
(* Generic helpers (python / numpy semantics).                             *)
(***************************************************************************)
Range(s) == {s[i] : i \in DOMAIN s}

SetMin(S) == CHOOSE x \in S : \A y \in S : x <= y

SetMax(S) == CHOOSE x \in S : \A y \in S : x >= y

\* position of a slice bound i in a sequence of length n (python slicing)
PyIdx(i, n) == IF i < 0 THEN (IF i + n < 0 THEN 0 ELSE i + n)
               ELSE (IF i > n THEN n ELSE i)

\* seq[a:b] with 0-based python bounds
PySlice(seq, a, b) == SubSeq(seq, PyIdx(a, Len(seq)) + 1, PyIdx(b, Len(seq)))

\* seq[a:]
PySliceFrom(seq, a) == SubSeq(seq, PyIdx(a, Len(seq)) + 1, Len(seq))

Str(n) == [kind |-> "str", name |-> n, state |-> 0]

Sample(n, st) == [kind |-> "Sample", name |-> n, state |-> st]

\* (x or [""]) : an empty list or "" is replaced by [""]
OrBlank(x) == IF x = {} THEN {""} ELSE x

(***************************************************************************)
(* select_samples (lines 258-276).                                         *)
(***************************************************************************)
\* excludes = (paramsdict["excludes"] or [""]) + (paramsdict["outgroups"] or [""])
Excludes(pd) == {Str(n) : n \in OrBlank(pd.excludes) \cup OrBlank(pd.outgroups)}

\* includes = list(set(samples) - set(excludes)).  The members of samples
\* are compared with the excluded names by python equality: a Sample object
\* is not equal to a str.
Includes(pd, smp) == Range(smp) \ Excludes(pd)

\* dbsamples.index(i): 0-based position of the first equal entry
DbIndex(dbsamples, i) ==
    SetMin({k \in DOMAIN dbsamples : dbsamples[k] = i}) - 1

\* [dbsamples.index(i) for i in includes] raises ValueError when some member
\* of includes is not an entry of dbsamples (a list of names)
SelectRaises(pd, dbsamples, smp) ==
    \E i \in Includes(pd, smp) : i \notin Range(dbsamples)

\* the row indices returned (the order of list(set(..)) is the hash order)
SelectSamples(pd, dbsamples, smp) ==
    {DbIndex(dbsamples, i) : i \in Includes(pd, smp)}

(***************************************************************************)
(* get_edges (lines 281-353).                                              *)
(***************************************************************************)
IsPair(pd) == pd.datatype \in {"pairddrad", "pairgbs"}

\* superseqs[superseqs == "-"] = "N" ; superseqs[superseqs == ""] = "N"
NormChar(c) == IF c = "-" \/ c = "" THEN "N" ELSE c

Normalize(sq) ==
    [l \in DOMAIN sq |->
        [s \in DOMAIN sq[l] |->
            [c \in DOMAIN sq[l][s] |-> NormChar(sq[l][s][c])]]]

\* number of site columns of locus l (superseqs.shape[2])
NSites(sq, l) == IF Len(sq[l]) = 0 THEN 0 ELSE Len(sq[l][1])

\* ccx = np.sum(superseqs != "N", axis=1): per locus and site, the number
\* of sample rows that are not "N"
Ccx(sq, l) ==
    [c \in 1..NSites(sq, l) |->
        Cardinality({s \in DOMAIN sq[l] : sq[l][s][c] # "N"})]

\* edgedict = {2: 4, 3: minsamp, 4: allsamp}; edgedict.get(i)
EdgeMin(pd, allsamp, i) ==
    CASE i = 2 -> FourSamples
      [] i = 3 -> pd.minsamp
      [] i = 4 -> allsamp
      [] OTHER -> NoneVal

\* np.where(r > m)[0]: the 0-based positions whose count exceeds m
WhereGt(r, m) == {i \in 0..(Len(r) - 1) : r[i + 1] > m}

\* the try block of one read side: left = where(..).min(), then
\* right = where(..).max(); .min()/.max() of an empty array raise
\* ValueError, which leaves the edges not yet assigned at 0.
TrySide(r, mleft, mright) ==
    LET wl == WhereGt(r, mleft)
        wr == WhereGt(r, mright)
    IN  IF wl = {} THEN [left |-> 0, right |-> 0, fail |-> TRUE]
        ELSE IF wr = {} THEN [left |-> SetMin(wl), right |-> 0, fail |-> TRUE]
        ELSE [left |-> SetMin(wl), right |-> SetMax(wr), fail |-> FALSE]

\* the body of the loop over (idx, split) for one locus
EdgeLocus(pd, sq, l, split) ==
    LET allsamp == Len(sq)           \* superseqs.shape[0]
        ccx == Ccx(sq, l)
        et == pd.edge_trimming
        r1s == PySlice(ccx, 0, split)
        r2s == PySliceFrom(ccx, split + SepLen)
        s1 == TrySide(r1s, EdgeMin(pd, allsamp, et[1]), EdgeMin(pd, allsamp, et[2]))
        s2 == TrySide(r2s, EdgeMin(pd, allsamp, et[3]), EdgeMin(pd, allsamp, et[4]))
        edge1 == s1.right
        edge0 == IF et[1] # 0 THEN edge1 + Len(pd.restriction_overhangs[1])
                 ELSE s1.left
        edge2 == IF IsPair(pd) THEN s2.left ELSE 0
        edge3 == IF IsPair(pd)
                 THEN (IF et[4] # 0 THEN s2.right - Len(pd.restriction_overhangs[2])
                       ELSE s2.right)
                 ELSE 0
    IN  [edgefilter |-> (s1.fail \/ (IsPair(pd) /\ s2.fail)),
         edge |-> <<edge0, edge1, edge2, edge3>>]

\* get_edges(data, superseqs, splits): superseqs is normalised in place;
\* loci beyond len(splits) keep the zero defaults
GetEdges(pd, sq0, spl) ==
    LET sq == Normalize(sq0)
        one(l) == IF l <= Len(spl) THEN EdgeLocus(pd, sq, l, spl[l])
                  ELSE [edgefilter |-> FALSE, edge |-> <<0, 0, 0, 0>>]
    IN  [superseqs |-> sq,
         edgefilter |-> [l \in DOMAIN sq |-> one(l).edgefilter],
         edges |-> [l \in DOMAIN sq |-> one(l).edge]]

(***************************************************************************)
(* filter_minsamp (lines 357-369).                                         *)
(***************************************************************************)
\* np.all(superseqs != "N", axis=2): the sample rows with no "N" at any site
AllNotN(sq, l) == {s \in DOMAIN sq[l] : \A c \in DOMAIN sq[l][s] : sq[l][s][c] # "N"}

\* np.all(..).sum(axis=1) < minsamp
FilterMinsamp(pd, sq) ==
    [l \in DOMAIN sq |-> Cardinality(AllNotN(sq, l)) < pd.min_samples_locus]

(***************************************************************************)
(* filter_maxhet (lines 443-474).                                          *)
(***************************************************************************)
\* np.sum(superseqs[idx, :, lo:hi] == ambig, axis=1)[s]: the number of
\* sites of the slice at which sample row s carries ambig
AmbigSum(sq, l, s, lo, hi, ambig) ==
    LET row == PySlice(sq[l][s], lo, hi)
    IN  Cardinality({c \in DOMAIN row : row[c] = ambig})

\* np.array([np.sum(.. == ambig, axis=1).max() for ambig in "RSKYWM"]).max()
HetScalar(sq, l, lo, hi) ==
    SetMax({AmbigSum(sq, l, s, lo, hi, a) : s \in DOMAIN sq[l], a \in AMBIGCODES})

HetLocus(pd, sq, l, edg) ==
    LET maxhet == pd.max_shared_heterozygosity
        r1s == HetScalar(sq, l, edg[1], edg[2])
        r2s == HetScalar(sq, l, edg[3], edg[4])
    IN  IF ~IsPair(pd) THEN ~(r1s <= maxhet[1])
        ELSE ~((r1s <= maxhet[1]) /\ (r2s <= maxhet[2]))

FilterMaxhet(pd, sq, edgs) ==
    [l \in DOMAIN edgs |-> HetLocus(pd, sq, l, edgs[l])]

(***************************************************************************)
(* filter_all_clusters helpers (lines 115-120).                            *)
(***************************************************************************)
\* the list literal [submitted, submitted+optim]
HsliceList(sub, optim) == [kind |-> "list", val |-> <<sub, sub + optim>>]

\* np.int is the builtin int: int(x) of a list raises TypeError
NpInt(x) == IF x.kind = "list" THEN [ok |-> FALSE, exc |-> "TypeError", val |-> x.val]
            ELSE [ok |-> TRUE, exc |-> "none", val |-> x.val]

(***************************************************************************)
(* make_outfiles helpers (lines 528-557).                                  *)
(***************************************************************************)
\* samples = [i for i in samples if i.name not in excludes]
KeptSamples(pd, smp) ==
    SelectSeq(smp, LAMBDA i : i.name \notin (OrBlank(pd.excludes) \cup OrBlank(pd.outgroups)))

\* if "*" in output_formats: output_formats = OUTPUT_FORMATS
RequestedFormats(pd) ==
    IF "*" \in Range(pd.output_formats) THEN OUTPUT_FORMATS ELSE pd.output_formats

\* the module suffix looked up as globals()["loci2"+filetype]
Converter(filetype) ==
    IF filetype \in {"phy", "nex"} THEN "phynex"
    ELSE IF filetype \in {"snps", "usnps", "str", "geno"} THEN "SNP"
    ELSE filetype

(***************************************************************************)
(* filter_stacks helpers (lines 223-238).                                  *)
(***************************************************************************)
\* the dict literal `filters`: dupfilter and indfilter are None
Filters(f) ==
    [dupfilter |-> "None", indfilter |-> "None", edgfilter |-> f.edgfilter,
     minfilter |-> f.minfilter, hetfilter |-> f.hetfilter,
     snpfilter |-> f.snpfilter]

\* what one call of filter_stacks ends with on an engine: for single-end
\* data `splits` is read unbound at line 209, otherwise filter_maxsnp is
\* called with one argument too many at line 223
StacksOutcome(pd) ==
    IF ~IsPair(pd) THEN "UnboundLocalError"
    ELSE IF FilterMaxsnpArgs # FilterMaxsnpParams THEN "TypeError"
    ELSE "none"

(***************************************************************************)
(* ucount (lines 373-401).                                                 *)
(***************************************************************************)
\* AMBIGS of util: the two bases of each ambiguity code
AMBIGS == [a \in AMBIGCODES |->
              CASE a = "R" -> {"G", "A"}
                [] a = "K" -> {"G", "T"}
                [] a = "S" -> {"G", "C"}
                [] a = "Y" -> {"T", "C"}
                [] a = "W" -> {"T", "A"}
                [] a = "M" -> {"C", "A"}]

\* site = set(sitecol); every code in it is replaced by its two bases;
\* "N" and "-" are discarded
UcountSite(sitecol) ==
    LET site == Range(sitecol)
    IN  ((site \ AMBIGCODES) \cup UNION {AMBIGS[a] : a \in site \cap AMBIGCODES})
            \ {"N", "-"}

\* np.sum(sitecol == base): the rows of the column that hold base itself
RawCount(sitecol, base) == Cardinality({s \in DOMAIN sitecol : sitecol[s] = base})

Ucount(sitecol) ==
    LET site == UcountSite(sitecol)
        ccx == Cardinality({base \in site : RawCount(sitecol, base) > 1})
    IN  IF Cardinality(site) < 2 THEN " "
        ELSE IF ccx > 1 THEN "*" ELSE "-"

\* the site column c of locus l: superseqs[l, :, c]
ColumnOf(sq, l, c) == [s \in DOMAIN sq[l] |-> sq[l][s][c]]

(***************************************************************************)
(* filter_maxsnp (lines 405-439).                                          *)
(***************************************************************************)
\* snps = np.apply_along_axis(ucount, 1, superseqs): one symbol per locus
\* and site
SnpString(sq) ==
    [l \in DOMAIN sq |-> [c \in 1..NSites(sq, l) |-> Ucount(ColumnOf(sq, l, c))]]

\* the exceptions the body can raise.  Single-end: "for idx, edg in edges"
\* unpacks a row of EdgeRowLen values into LoopTargets names.  Paired:
\* "splits" is neither a parameter nor a local nor defined in this file; if
\* the star import of util supplied one, enumerate(zip(..)) yields pairs
\* that are unpacked into three names.
MaxsnpRaises(pd, edg) ==
    IF IsPair(pd) THEN {"NameError", "ValueError"}
    ELSE IF edg # <<>> /\ EdgeRowLen # LoopTargets THEN {"ValueError"}
    ELSE {}

(***************************************************************************)
(* count_snps (lines 591-624).                                             *)
(***************************************************************************)
\* Counter(i) of one stack: the symbols of the column as they are
StackKeys(stack) == Range(stack)

\* stack.values().count(1): the symbols that occur once
Autapomorphies(stack) ==
    Cardinality({k \in StackKeys(stack) : RawCount(stack, k) = 1})

\* the symbol written at one site
SnpSite(stack) ==
    IF Cardinality(StackKeys(stack)) > 1
    THEN (IF Autapomorphies(stack) = Cardinality(StackKeys(stack)) - 1
          THEN "-" ELSE "*")
    ELSE " "

\* snpsite for the sequences of one locus (rows of equal length)
SnpSites(seqs) == [c \in 1..Len(seqs[1]) |-> SnpSite([s \in DOMAIN seqs |-> seqs[s][c]])]

\* count_snps(seqs): nsnps and the row "".join(snpsite) + "|"
CountSnps(seqs) ==
    LET snpsite == SnpSites(seqs)
    IN  [nsnps |-> Cardinality({c \in DOMAIN snpsite : snpsite[c] \in {"*", "-"}}),
         snps |-> snpsite \o <<"|">>]

(***************************************************************************)
(* Inputs.                                                                 *)
(***************************************************************************)
AlphaEdges == {"A", "N", "-"}
AlphaMinsamp == {"A", "N"}
AlphaHet == {"A", "R", "Y"}
Separator == <<"n", "n", "n", "n">>

Shapes == {sh \in (1..MaxSamples) \X (1..MaxSites) : sh[1] * sh[2] <= MaxCells}

\* the locus blocks of one locus over an alphabet
Loci(alpha) == UNION {[1..sh[1] -> [1..sh[2] -> alpha]] : sh \in Shapes}

\* a paired locus: read 1, the separator, read 2
WithSep(loc, split) ==
    [s \in DOMAIN loc |->
        SubSeq(loc[s], 1, split) \o Separator \o SubSeq(loc[s], split + 1, Len(loc[s]))]

Filler(loc) == [s \in DOMAIN loc |-> [c \in DOMAIN loc[s] |-> "A"]]

\* a block of n loci: the locus followed by fully covered loci
Chunk(loc, n) == [l \in 1..n |-> IF l = 1 THEN loc ELSE Filler(loc)]

EdgeTuples == {<<0, 0, 0, 0>>, <<1, 1, 1, 1>>, <<2, 2, 2, 2>>,
               <<3, 3, 3, 3>>, <<4, 4, 4, 4>>}

DefaultParams ==
    [datatype |-> "rad", edge_trimming |-> <<0, 0, 0, 0>>, minsamp |-> 1,
     min_samples_locus |-> 1,
     restriction_overhangs |-> << <<"T">>, <<"C">> >>,
     max_shared_heterozygosity |-> <<1, 1>>, max_SNPs_locus |-> <<1, 1>>,
     excludes |-> {}, outgroups |-> {}, output_formats |-> <<"*">>]

SampleLists ==
    {sq \in UNION {[1..n -> {Sample(nm, st) : nm \in Names, st \in {ReadyState - 1, ReadyState}}]
                     : n \in 0..MaxSampleObjs} :
        \A i, j \in DOMAIN sq : i # j => sq[i].name # sq[j].name}

FormatChoices == {<<"*">>, <<"phy">>, <<"vcf", "snps">>, <<>>}

NoDb == [nloci |-> 0, optim |-> 1, dbsamples |-> <<>>, splits |-> <<>>]

NoFilters == [edgfilter |-> <<>>, minfilter |-> <<>>, hetfilter |-> <<>>,
              snpfilter |-> <<>>, snps |-> <<>>, nsnps |-> <<>>]

\* the merged .loci file: nothing written
NoCanonical == [written |-> FALSE, loci |-> <<>>]

Unset == [bound |-> FALSE, val |-> <<>>]

Bound(v) == [bound |-> TRUE, val |-> v]

Locals ==
    /\ exc = "none"
    /\ created = FALSE
    /\ sidx = {}
    /\ submitted = 0
    /\ submitted_args = <<>>
    /\ results = <<>>
    /\ canonical = NoCanonical
    /\ todo = <<>>
    /\ invoked = <<>>
    /\ filters = NoFilters
    /\ ret = "none"

\* run(data, samples, force, ipyclient)
InitRun ==
    /\ entry = "run" /\ pc = "run"
    /\ samples \in SampleLists
    /\ \E n \in 0..MaxLoci, o \in 1..MaxOptim :
          db = [nloci |-> n, optim |-> o,
                dbsamples |-> <<Str("s1"), Str("s2")>>, splits |-> <<>>]
    /\ chunkdir \in {"absent", "present"}
    /\ \E dt \in {"rad", "pairddrad"}, ex \in {{}, {"s1"}} :
          paramsdict = [DefaultParams EXCEPT !.datatype = dt, !.excludes = ex]
    /\ inseqs = <<>> /\ superseqs = <<>> /\ splits = Unset /\ edges = <<>>
    /\ Locals

\* make_outfiles(data, samples, force)
InitMake ==
    /\ entry = "make_outfiles" /\ pc = "mo"
    /\ samples \in SampleLists
    /\ db = NoDb /\ chunkdir = "absent"
    /\ \E ex \in SUBSET Names, og \in {{}, {"s2"}}, fm \in FormatChoices :
          paramsdict = [DefaultParams EXCEPT !.excludes = ex, !.outgroups = og,
                                             !.output_formats = fm]
    /\ inseqs = <<>> /\ superseqs = <<>> /\ splits = Unset /\ edges = <<>>
    /\ Locals

\* filter_stacks([data, sidx, hslice]) on an engine
InitStacks ==
    /\ entry = "filter_stacks" /\ pc = "fs"
    /\ samples = <<>> /\ chunkdir = "present"
    /\ \E loc \in Loci(AlphaEdges), n \in 1..MaxChunk,
          dt \in {"rad", "pairddrad"}, et \in {<<0, 0, 0, 0>>, <<4, 4, 4, 4>>} :
          \E split \in 0..Len(loc[1]) :
             /\ inseqs = Chunk(IF dt = "rad" THEN loc ELSE WithSep(loc, split), n)
             /\ db = [NoDb EXCEPT !.nloci = n, !.optim = n,
                                  !.splits = [l \in 1..n |-> split]]
             /\ paramsdict = [DefaultParams EXCEPT !.datatype = dt,
                                                   !.edge_trimming = et,
                                                   !.min_samples_locus = 2]
    /\ superseqs = <<>> /\ splits = Unset /\ edges = <<>>
    /\ Locals

\* get_edges(data, superseqs, splits)
InitEdges ==
    /\ entry = "get_edges" /\ pc = "ge"
    /\ samples = <<>> /\ db = NoDb /\ chunkdir = "absent"
    /\ \E loc \in Loci(AlphaEdges), n \in 1..MaxChunk,
          dt \in {"rad", "pairddrad"}, et \in EdgeTuples, ms \in 1..2 :
          \E split \in 0..Len(loc[1]) :
             /\ inseqs = Chunk(IF dt = "rad" THEN loc ELSE WithSep(loc, split), n)
             /\ splits = Bound([l \in 1..n |-> split])
             /\ paramsdict = [DefaultParams EXCEPT !.datatype = dt,
                                                   !.edge_trimming = et,
                                                   !.minsamp = ms,
                                                   !.min_samples_locus = ms]
    /\ superseqs = inseqs /\ edges = <<>>
    /\ Locals

\* filter_minsamp(data, superseqs)
InitMinsamp ==
    /\ entry = "filter_minsamp" /\ pc = "ms"
    /\ samples = <<>> /\ db = NoDb /\ chunkdir = "absent"
    /\ \E loc \in Loci(AlphaMinsamp), n \in 1..MaxChunk, ms \in 1..3 :
          /\ inseqs = Chunk(loc, n)
          /\ paramsdict = [DefaultParams EXCEPT !.min_samples_locus = ms]
    /\ superseqs = inseqs /\ splits = Unset /\ edges = <<>>
    /\ Locals

\* the edge quadruples handed to filter_maxhet: python slice bounds
HetEdges(dt, width, split) ==
    IF dt = "rad"
    THEN {<<a, b, 0, 0>> : a \in 0..width, b \in 0..width}
    ELSE {<<0, split, split + SepLen, width + SepLen>>}

\* filter_maxhet(data, superseqs, edges)
InitMaxhet ==
    /\ entry = "filter_maxhet" /\ pc = "mh"
    /\ samples = <<>> /\ db = NoDb /\ chunkdir = "absent"
    /\ \E loc \in Loci(AlphaHet), dt \in {"rad", "pairddrad"},
          mh \in {<<1, 1>>, <<2, 1>>, <<1, 2>>} :
          \E split \in 0..Len(loc[1]) :
             \E edg \in HetEdges(dt, Len(loc[1]), split) :
                /\ inseqs = <<IF dt = "rad" THEN loc ELSE WithSep(loc, split)>>
                /\ edges = <<edg>>
                /\ paramsdict = [DefaultParams EXCEPT !.datatype = dt,
                                       !.max_shared_heterozygosity = mh]
    /\ superseqs = inseqs /\ splits = Unset
    /\ Locals

AlphaUcount == {"A", "T", "R", "N", "-"}

\* ucount(sitecol): the column is held as a block of one locus and one site
InitUcount ==
    /\ entry = "ucount" /\ pc = "uc"
    /\ samples = <<>> /\ db = NoDb /\ chunkdir = "absent"
    /\ \E n \in 1..MaxColumn : \E col \in [1..n -> AlphaUcount] :
          inseqs = <<[s \in 1..n |-> <<col[s]>>]>>
    /\ paramsdict = DefaultParams
    /\ superseqs = inseqs /\ splits = Unset /\ edges = <<>>
    /\ Locals

AlphaSnp == {"A", "T", "R"}

MaxSnpChoices == {<<0, 0>>, <<1, 1>>}

\* filter_maxsnp(data, superseqs, edges) on a block and the edges get_edges
\* gave for it
InitMaxsnp ==
    /\ entry = "filter_maxsnp" /\ pc = "mx"
    /\ samples = <<>> /\ db = NoDb /\ chunkdir = "absent"
    /\ \E loc \in Loci(AlphaSnp), n \in 1..MaxChunk,
          dt \in {"rad", "pairddrad"}, mx \in MaxSnpChoices :
          \E split \in 0..Len(loc[1]) :
             /\ inseqs = Chunk(IF dt = "rad" THEN loc ELSE WithSep(loc, split), n)
             /\ splits = Bound([l \in 1..n |-> split])
             /\ paramsdict = [DefaultParams EXCEPT !.datatype = dt,
                                                   !.max_SNPs_locus = mx]
    /\ superseqs = GetEdges(paramsdict, inseqs, splits.val).superseqs
    /\ edges = GetEdges(paramsdict, inseqs, splits.val).edges
    /\ Locals

AlphaCount == {"A", "T", "R", "N"}

\* count_snps(seqs) on the sequences of one locus
InitCount ==
    /\ entry = "count_snps" /\ pc = "cs"
    /\ samples = <<>> /\ db = NoDb /\ chunkdir = "absent"
    /\ \E loc \in Loci(AlphaCount) : inseqs = <<loc>>
    /\ paramsdict = DefaultParams
    /\ superseqs = inseqs /\ splits = Unset /\ edges = <<>>
    /\ Locals

Init ==
    \/ InitRun \/ InitMake \/ InitStacks \/ InitEdges \/ InitMinsamp
    \/ InitMaxhet \/ InitUcount \/ InitMaxsnp \/ InitCount

(***************************************************************************)
(* run (lines 36-56) and precheck (lines 60-80).                           *)
(***************************************************************************)
\* precheck: the samples with stats.state >= 6, in their order
Precheck(smp) == SelectSeq(smp, LAMBDA x : ~(x.state < ReadyState))

\* samples = precheck(data, samples)
RunPrecheck ==
    /\ pc = "run"
    /\ samples' = Precheck(samples)
    /\ pc' = "fac_meta"
    /\ UNCHANGED <<entry, exc, paramsdict, db, chunkdir, created, sidx,
                   submitted, submitted_args, results, canonical, todo,
                   invoked, inseqs, superseqs, splits, edges, filters, ret>>

(***************************************************************************)
(* filter_all_clusters (lines 84-135).                                     *)
(***************************************************************************)
\* lines 90-99: the load balanced view; optim, dbsamples and nloci are read
FacMeta ==
    /\ pc = "fac_meta"
    /\ pc' = "fac_mkdir"
    /\ submitted' = 0
    /\ UNCHANGED <<entry, exc, paramsdict, samples, db, chunkdir, created,
                   sidx, submitted_args, results, canonical, todo, invoked,
                   inseqs, superseqs, splits, edges, filters, ret>>

\* lines 102-103: os.mkdir(chunkdir) raises OSError when the directory is
\* there already; the call is outside the try block
FacMkdir ==
    /\ pc = "fac_mkdir"
    /\ IF chunkdir = "present"
       THEN /\ exc' = "OSError"
            /\ pc' = "raised"
            /\ UNCHANGED <<chunkdir, created>>
       ELSE /\ chunkdir' = "present"
            /\ created' = TRUE
            /\ pc' = "fac_select"
            /\ UNCHANGED exc
    /\ UNCHANGED <<entry, paramsdict, samples, db, sidx, submitted,
                   submitted_args, results, canonical, todo, invoked, inseqs,
                   superseqs, splits, edges, filters, ret>>

\* line 106: sidx = select_samples(data, dbsamples, samples), outside the
\* try block: an exception leaves filter_all_clusters at once
FacSelect ==
    /\ pc = "fac_select"
    /\ IF SelectRaises(paramsdict, db.dbsamples, samples)
       THEN /\ exc' = "ValueError"
            /\ pc' = "raised"
            /\ UNCHANGED sidx
       ELSE /\ sidx' = SelectSamples(paramsdict, db.dbsamples, samples)
            /\ pc' = "fac_queue"
            /\ UNCHANGED exc
    /\ UNCHANGED <<entry, paramsdict, samples, db, chunkdir, created,
                   submitted, submitted_args, results, canonical, todo,
                   invoked, inseqs, superseqs, splits, edges, filters, ret>>

\* lines 115-120: one test of the while condition and one pass of its body
FacQueue ==
    /\ pc = "fac_queue"
    /\ IF submitted < db.nloci
       THEN LET hslice == NpInt(HsliceList(submitted, db.optim))
            IN  IF hslice.ok
                THEN /\ submitted_args' = Append(submitted_args, hslice.val)
                     /\ submitted' = submitted + db.optim
                     /\ UNCHANGED <<pc, exc>>
                ELSE /\ exc' = hslice.exc
                     /\ pc' = "fac_finally"
                     /\ UNCHANGED <<submitted, submitted_args>>
       ELSE /\ pc' = "fac_map"
            /\ UNCHANGED <<exc, submitted, submitted_args>>
    /\ UNCHANGED <<entry, paramsdict, samples, db, chunkdir, created, sidx,
                   results, canonical, todo, invoked, inseqs, superseqs,
                   splits, edges, filters, ret>>

\* lines 123-124: map_async runs filter_stacks on every queued argument;
\* results.get() waits for all of them and raises the error of a failed one
FacMapGet ==
    /\ pc = "fac_map"
    /\ IF \E k \in DOMAIN submitted_args : StacksOutcome(paramsdict) # "none"
       THEN /\ exc' = StacksOutcome(paramsdict)
            /\ pc' = "fac_finally"
            /\ UNCHANGED results
       ELSE /\ results' = [k \in DOMAIN submitted_args |-> "filters"]
            /\ pc' = "fac_exit"
            /\ UNCHANGED exc
    /\ UNCHANGED <<entry, paramsdict, samples, db, chunkdir, created, sidx,
                   submitted, submitted_args, canonical, todo, invoked,
                   inseqs, superseqs, splits, edges, filters, ret>>

\* FacExit without the exit: the try block ends normally
FacExitReturns ==
    /\ pc = "fac_exit"
    /\ pc' = "fac_finally"
    /\ UNCHANGED <<entry, exc, paramsdict, samples, db, chunkdir, created,
                   sidx, submitted, submitted_args, results, canonical, todo,
                   invoked, inseqs, superseqs, splits, edges, filters, ret>>

\* line 127: sys.exit(2) raises SystemExit inside the try block; nothing is
\* merged into the canonical file
FacExit ==
    /\ pc = "fac_exit"
    /\ exc' = "SystemExit"
    /\ pc' = "fac_finally"
    /\ UNCHANGED <<entry, paramsdict, samples, db, chunkdir, created, sidx,
                   submitted, submitted_args, results, canonical, todo,
                   invoked, inseqs, superseqs, splits, edges, filters, ret>>

\* lines 129-135: shutil.rmtree(chunkdir); an IOError or OSError of rmtree
\* is swallowed.  The exception in flight, if any, then propagates through
\* run to the caller; otherwise run goes on to make_outfiles (line 56).
FacFinally ==
    /\ pc = "fac_finally"
    /\ \E removed \in BOOLEAN :
          chunkdir' = IF removed THEN "absent" ELSE chunkdir
    /\ pc' = IF exc = "none" THEN "mo" ELSE "raised"
    /\ UNCHANGED <<entry, exc, paramsdict, samples, db, created, sidx,
                   submitted, submitted_args, results, canonical, todo,
                   invoked, inseqs, superseqs, splits, edges, filters, ret>>

(***************************************************************************)
(* make_outfiles (lines 521-557).                                          *)
(***************************************************************************)
\* lines 529-537: drop the excluded samples, pick the formats
MoBegin ==
    /\ pc = "mo"
    /\ samples' = KeptSamples(paramsdict, samples)
    /\ todo' = RequestedFormats(paramsdict)
    /\ pc' = "mo_loop"
    /\ UNCHANGED <<entry, exc, paramsdict, db, chunkdir, created, sidx,
                   submitted, submitted_args, results, canonical, invoked,
                   inseqs, superseqs, splits, edges, filters, ret>>

\* MoConvert without the aliases of lines 544-549: every format is looked up
\* under its own name
MoConvertOwnName ==
    /\ pc = "mo_loop"
    /\ todo # <<>>
    /\ invoked' = Append(invoked, Head(todo))
    /\ todo' = Tail(todo)
    /\ UNCHANGED <<entry, pc, exc, paramsdict, samples, db, chunkdir, created,
                   sidx, submitted, submitted_args, results, canonical,
                   inseqs, superseqs, splits, edges, filters, ret>>

\* lines 540-557: one pass of the loop over the formats
MoConvert ==
    /\ pc = "mo_loop"
    /\ todo # <<>>
    /\ invoked' = Append(invoked, Converter(Head(todo)))
    /\ todo' = Tail(todo)
    /\ UNCHANGED <<entry, pc, exc, paramsdict, samples, db, chunkdir, created,
                   sidx, submitted, submitted_args, results, canonical,
                   inseqs, superseqs, splits, edges, filters, ret>>

MoReturn ==
    /\ pc = "mo_loop"
    /\ todo = <<>>
    /\ pc' = "returned"
    /\ UNCHANGED <<entry, exc, paramsdict, samples, db, chunkdir, created,
                   sidx, submitted, submitted_args, results, canonical, todo,
                   invoked, inseqs, superseqs, splits, edges, filters, ret>>

(***************************************************************************)
(* filter_stacks (lines 172-247).                                          *)
(***************************************************************************)
\* lines 185-192: load the block; splits is assigned for paired data only
StLoad ==
    /\ pc = "fs"
    /\ superseqs' = inseqs
    /\ splits' = IF IsPair(paramsdict) THEN Bound(db.splits) ELSE Unset
    /\ pc' = "fs_edges"
    /\ UNCHANGED <<entry, exc, paramsdict, samples, db, chunkdir, created,
                   sidx, submitted, submitted_args, results, canonical, todo,
                   invoked, inseqs, edges, filters, ret>>

\* line 209: edgfilter, edges = get_edges(data, superseqs, splits)
StGetEdges ==
    /\ pc = "fs_edges"
    /\ IF ~splits.bound
       THEN /\ exc' = "UnboundLocalError"
            /\ pc' = "fs_except"
            /\ UNCHANGED <<superseqs, edges, filters>>
       ELSE LET g == GetEdges(paramsdict, superseqs, splits.val)
            IN  /\ superseqs' = g.superseqs
                /\ edges' = g.edges
                /\ filters' = [filters EXCEPT !.edgfilter = g.edgefilter]
                /\ pc' = "fs_minsamp"
                /\ UNCHANGED exc
    /\ UNCHANGED <<entry, paramsdict, samples, db, chunkdir, created, sidx,
                   submitted, submitted_args, results, canonical, todo,
                   invoked, inseqs, splits, ret>>

\* line 216: minfilter = filter_minsamp(data, superseqs)
StMinsamp ==
    /\ pc = "fs_minsamp"
    /\ filters' = [filters EXCEPT !.minfilter = FilterMinsamp(paramsdict, superseqs)]
    /\ pc' = "fs_maxhet"
    /\ UNCHANGED <<entry, exc, paramsdict, samples, db, chunkdir, created,
                   sidx, submitted, submitted_args, results, canonical, todo,
                   invoked, inseqs, superseqs, splits, edges, ret>>

\* line 219: hetfilter = filter_maxhet(data, superseqs, edges)
StMaxhet ==
    /\ pc = "fs_maxhet"
    /\ filters' = [filters EXCEPT !.hetfilter = FilterMaxhet(paramsdict, superseqs, edges)]
    /\ pc' = "fs_maxsnp"
    /\ UNCHANGED <<entry, exc, paramsdict, samples, db, chunkdir, created,
                   sidx, submitted, submitted_args, results, canonical, todo,
                   invoked, inseqs, superseqs, splits, edges, ret>>

\* lines 223-238: filter_maxsnp(data, superseqs, splits, edges) passes four
\* arguments to a function of three: TypeError.  Lines 229-238 build the
\* filters dict and return it.
StMaxsnp ==
    /\ pc = "fs_maxsnp"
    /\ IF FilterMaxsnpArgs # FilterMaxsnpParams
       THEN /\ exc' = "TypeError"
            /\ pc' = "fs_except"
            /\ UNCHANGED <<filters, ret>>
       ELSE /\ filters' = Filters(filters)
            /\ ret' = "filters"
            /\ pc' = "returned"
            /\ UNCHANGED exc
    /\ UNCHANGED <<entry, paramsdict, samples, db, chunkdir, created, sidx,
                   submitted, submitted_args, results, canonical, todo,
                   invoked, inseqs, superseqs, splits, edges>>

\* StExcept without the raise: the handler logs and filter_stacks returns
StExceptSwallows ==
    /\ pc = "fs_except"
    /\ pc' = "returned"
    /\ UNCHANGED <<entry, exc, paramsdict, samples, db, chunkdir, created,
                   sidx, submitted, submitted_args, results, canonical, todo,
                   invoked, inseqs, superseqs, splits, edges, filters, ret>>

\* lines 241-244: except Exception as inst: LOGGER.warn(inst); raise
StExcept ==
    /\ pc = "fs_except"
    /\ pc' = "raised"
    /\ UNCHANGED <<entry, exc, paramsdict, samples, db, chunkdir, created,
                   sidx, submitted, submitted_args, results, canonical, todo,
                   invoked, inseqs, superseqs, splits, edges, filters, ret>>

(***************************************************************************)
(* Direct calls of get_edges, filter_minsamp and filter_maxhet.            *)
(***************************************************************************)
GetEdgesCall ==
    /\ pc = "ge"
    /\ LET g == GetEdges(paramsdict, superseqs, splits.val)
       IN  /\ superseqs' = g.superseqs
           /\ edges' = g.edges
           /\ filters' = [filters EXCEPT !.edgfilter = g.edgefilter]
    /\ ret' = "edgefilter,edges"
    /\ pc' = "returned"
    /\ UNCHANGED <<entry, exc, paramsdict, samples, db, chunkdir, created,
                   sidx, submitted, submitted_args, results, canonical, todo,
                   invoked, inseqs, splits>>

FilterMinsampCall ==
    /\ pc = "ms"
    /\ filters' = [filters EXCEPT !.minfilter = FilterMinsamp(paramsdict, superseqs)]
    /\ ret' = "minfilt"
    /\ pc' = "returned"
    /\ UNCHANGED <<entry, exc, paramsdict, samples, db, chunkdir, created,
                   sidx, submitted, submitted_args, results, canonical, todo,
                   invoked, inseqs, superseqs, splits, edges>>

FilterMaxhetCall ==
    /\ pc = "mh"
    /\ filters' = [filters EXCEPT !.hetfilter = FilterMaxhet(paramsdict, superseqs, edges)]
    /\ ret' = "hetfilt"
    /\ pc' = "returned"
    /\ UNCHANGED <<entry, exc, paramsdict, samples, db, chunkdir, created,
                   sidx, submitted, submitted_args, results, canonical, todo,
                   invoked, inseqs, superseqs, splits, edges>>

(***************************************************************************)
(* Direct call of ucount.                                                  *)
(***************************************************************************)
UcountCall ==
    /\ pc = "uc"
    /\ filters' = [filters EXCEPT !.snps = <<<<Ucount(ColumnOf(superseqs, 1, 1))>>>>]
    /\ ret' = "snp"
    /\ pc' = "returned"
    /\ UNCHANGED <<entry, exc, paramsdict, samples, db, chunkdir, created,
                   sidx, submitted, submitted_args, results, canonical, todo,
                   invoked, inseqs, superseqs, splits, edges>>

(***************************************************************************)
(* Direct call of filter_maxsnp.  The function has no return statement     *)
(* for single-end data: without an exception it returns None.              *)
(***************************************************************************)
FilterMaxsnpCall ==
    /\ pc = "mx"
    /\ IF MaxsnpRaises(paramsdict, edges) # {}
       THEN /\ \E e \in MaxsnpRaises(paramsdict, edges) : exc' = e
            /\ pc' = "raised"
            /\ UNCHANGED ret
       ELSE /\ ret' = "None"
            /\ pc' = "returned"
            /\ UNCHANGED exc
    /\ UNCHANGED <<entry, paramsdict, samples, db, chunkdir, created, sidx,
                   submitted, submitted_args, results, canonical, todo,
                   invoked, inseqs, superseqs, splits, edges, filters>>

(***************************************************************************)
(* Direct call of count_snps.                                              *)
(***************************************************************************)
CountSnpsCall ==
    /\ pc = "cs"
    /\ LET r == CountSnps(superseqs[1])
       IN  filters' = [filters EXCEPT !.snps = <<r.snps>>, !.nsnps = <<r.nsnps>>]
    /\ ret' = "nsnps,snps"
    /\ pc' = "returned"
    /\ UNCHANGED <<entry, exc, paramsdict, samples, db, chunkdir, created,
                   sidx, submitted, submitted_args, results, canonical, todo,
                   invoked, inseqs, superseqs, splits, edges>>

Next ==
    \/ RunPrecheck \/ FacMeta \/ FacMkdir \/ FacSelect \/ FacQueue
    \/ FacMapGet \/ FacExit \/ FacFinally
    \/ MoBegin \/ MoConvert \/ MoReturn
    \/ StLoad \/ StGetEdges \/ StMinsamp \/ StMaxhet \/ StMaxsnp \/ StExcept
    \/ GetEdgesCall \/ FilterMinsampCall \/ FilterMaxhetCall
    \/ UcountCall \/ FilterMaxsnpCall \/ CountSnpsCall

Spec == Init /\ [][Next]_vars

(***************************************************************************)
(* Properties.                                                             *)
(***************************************************************************)
Missing == {"N", "-", ""}

Finished == pc \in {"returned", "raised"}

\* C1: when filter_stacks has finished on a chunk it has returned a filter
\* outcome with six slots, every slot holding one boolean per locus, the
\* duplicate and indel slots false for every locus.
C1_SixBooleanSlots ==
    (entry = "filter_stacks" /\ Finished) =>
        /\ ret = "filters"
        /\ DOMAIN filters = {"dupfilter", "indfilter", "edgfilter",
                             "minfilter", "hetfilter", "snpfilter"}
        /\ \A k \in DOMAIN filters :
              /\ DOMAIN filters[k] = DOMAIN inseqs
              /\ \A l \in DOMAIN inseqs : filters[k][l] \in BOOLEAN
        /\ \A l \in DOMAIN inseqs :
              filters.dupfilter[l] = FALSE /\ filters.indfilter[l] = FALSE

CeilDiv(n, c) == (n + c - 1) \div c

\* C2: once the job queue of filter_all_clusters is built it holds exactly
\* ceil(N/c) tasks and task k covers the loci [k*c, min((k+1)*c, N)).
C2_TaskList ==
    (entry = "run" /\ pc \in {"fac_map", "fac_exit", "fac_finally"}) =>
        /\ Len(submitted_args) = CeilDiv(db.nloci, db.optim)
        /\ \A k \in DOMAIN submitted_args :
              /\ submitted_args[k][1] = (k - 1) * db.optim
              /\ submitted_args[k][2] =
                    (IF k * db.optim < db.nloci THEN k * db.optim ELSE db.nloci)

\* C3: once the pool has completed every chunk task, the planner has merged
\* the chunk results into the canonical file in ascending chunk order.
C3_MergedInChunkOrder ==
    (entry = "run" /\ pc \in {"fac_finally", "raised"} /\ exc = "SystemExit") =>
        /\ canonical.written
        /\ canonical.loci = results

\* C4: once filter_all_clusters has created the scratch directory, the
\* directory is gone when filter_all_clusters has returned or raised.
C4_ScratchRemoved ==
    (entry = "run" /\ created /\ pc \in {"raised", "mo", "mo_loop", "returned"}) =>
        chunkdir = "absent"

\* C5: an exception raised while a chunk task runs leaves filter_stacks as
\* that exception (no filters are returned), and an exception in flight in
\* filter_all_clusters leaves run as that exception: nothing is returned,
\* merged or converted.
C5_FailureAborts ==
    /\ (entry = "filter_stacks" /\ exc # "none") =>
          (pc \in {"fs_except", "raised"} /\ ret = "none")
    /\ (entry = "filter_stacks" /\ pc = "returned") =>
          (exc = "none" /\ ret = "filters")
    /\ (entry = "run" /\ exc # "none") =>
          /\ pc \in {"fac_finally", "raised"}
          /\ ret = "none"
          /\ ~canonical.written
          /\ invoked = <<>> /\ todo = <<>>

\* C5 witness: a chunk task failed after it had computed filters, and the
\* exception has left filter_stacks.
C5_Witness ==
    /\ entry = "filter_stacks" /\ pc = "raised" /\ exc = "TypeError"
    /\ filters.hetfilter # <<>> /\ ret = "none"

\* C6: within run no converter is invoked, and make_outfiles is not
\* entered, unless the canonical file has been merged and no exception is
\* in flight; a run that has failed has invoked no converter.
C6_NoConverterBeforeMerge ==
    entry = "run" =>
        /\ (pc \in {"mo", "mo_loop", "returned"} \/ invoked # <<>>) =>
              (canonical.written /\ exc = "none")
        /\ pc = "raised" => invoked = <<>>

\* C6 witness: a run that failed inside the try block of
\* filter_all_clusters, with no converter invoked.
C6_Witness ==
    /\ entry = "run" /\ pc = "raised" /\ created
    /\ exc \in {"TypeError", "SystemExit"}
    /\ invoked = <<>>

\* C7: a run in which every chunk task completed (results.get() returned)
\* ends with make_outfiles having invoked the converter of every requested
\* format.
C7_ReachesMakeOutfiles ==
    (entry = "run" /\ Finished /\ exc \in {"none", "SystemExit"}) =>
        /\ pc = "returned"
        /\ Len(invoked) = Len(RequestedFormats(paramsdict))
        /\ \A i \in DOMAIN invoked :
              invoked[i] = Converter(RequestedFormats(paramsdict)[i])

\* the columns of read side 1 and 2 of a locus
SideCols(pd, loc, split, side) ==
    IF side = 1 THEN {c \in DOMAIN loc[1] : c <= split}
    ELSE {c \in DOMAIN loc[1] : c > split + SepLen}

SidesPresent(pd) == IF IsPair(pd) THEN {1, 2} ELSE {1}

\* number of samples with a non-missing base at column c
Coverage(loc, c) == Cardinality({s \in DOMAIN loc : loc[s][c] \notin Missing})

\* the threshold of a policy entry as the claim gives it
ClaimThreshold(pd, loc, policy) ==
    CASE policy = 2 -> 4
      [] policy = 3 -> pd.min_samples_locus
      [] policy = 4 -> Len(loc)

\* the claimed flag: some edge of a side present has no column of its side
\* that meets the edge's threshold
ClaimEdgeFail(pd, loc, split) ==
    \E side \in SidesPresent(pd) : \E e \in {2 * side - 1, 2 * side} :
        \A c \in SideCols(pd, loc, split, side) :
            Coverage(loc, c) < ClaimThreshold(pd, loc, pd.edge_trimming[e])

\* C8: for coverage policies (2, 3, 4) and non-empty read sides, get_edges
\* flags a locus iff some edge of a side present has no column whose
\* non-missing count meets the threshold 4 / min_samples_locus / all rows.
C8_EdgeFailure ==
    (entry = "get_edges" /\ pc = "returned"
        /\ \A e \in 1..4 : paramsdict.edge_trimming[e] \in {2, 3, 4}) =>
        \A l \in DOMAIN inseqs :
            (\A side \in SidesPresent(paramsdict) :
                 SideCols(paramsdict, inseqs[l], splits.val[l], side) # {}) =>
            (filters.edgfilter[l]
                 <=> ClaimEdgeFail(paramsdict, inseqs[l], splits.val[l]))

\* the samples with at least one non-missing base
Covered(loc) == {s \in DOMAIN loc : \E c \in DOMAIN loc[s] : loc[s][c] \notin Missing}

\* C9: filter_minsamp flags a locus iff fewer than min_samples_locus samples
\* have at least one non-missing base.
C9_MinSamples ==
    (entry = "filter_minsamp" /\ pc = "returned") =>
        \A l \in DOMAIN inseqs :
            filters.minfilter[l]
                <=> (Cardinality(Covered(inseqs[l])) < paramsdict.min_samples_locus)

\* the claimed scalar: the largest number of samples that carry one code at
\* one site of the span [lo, hi)
ClaimHetScalar(loc, lo, hi) ==
    LET cols == {c \in DOMAIN loc[1] : lo < c /\ c <= hi}
        counts == {Cardinality({s \in DOMAIN loc : loc[s][c] = a}) :
                      c \in cols, a \in AMBIGCODES}
    IN  IF counts = {} THEN 0 ELSE SetMax(counts)

ClaimHetFail(pd, loc, edg) ==
    \/ ClaimHetScalar(loc, edg[1], edg[2]) > pd.max_shared_heterozygosity[1]
    \/ /\ IsPair(pd)
       /\ ClaimHetScalar(loc, edg[3], edg[4]) > pd.max_shared_heterozygosity[2]

\* C10: filter_maxhet flags a locus iff the per-site maximum of samples
\* sharing an ambiguity code inside a side's span exceeds that side's
\* max_shared_heterozygosity entry.
C10_MaxHet ==
    (entry = "filter_maxhet" /\ pc = "returned") =>
        \A l \in DOMAIN inseqs :
            filters.hetfilter[l]
                <=> ClaimHetFail(paramsdict, inseqs[l], edges[l])


\* the bases a symbol stands for, gap and missing symbols standing for none
Resolved(ch) ==
    IF ch \in AMBIGCODES THEN AMBIGS[ch]
    ELSE IF ch \in Missing THEN {}
    ELSE {ch}

\* occurrences of a base in a column after resolving the ambiguity codes
ResolvedCount(sitecol, base) ==
    Cardinality({s \in DOMAIN sitecol : base \in Resolved(sitecol[s])})

ResolvedBases(sitecol) == UNION {Resolved(sitecol[s]) : s \in DOMAIN sitecol}

\* resolved bases that occur more than once
Repeated(sitecol) ==
    {b \in ResolvedBases(sitecol) : ResolvedCount(sitecol, b) > 1}

\* C11: ucount returns blank when fewer than two distinct resolved bases are
\* present, "-" when exactly one resolved base occurs more than once and "*"
\* when two or more resolved bases occur more than once.
C11_Ucount ==
    (entry = "ucount" /\ pc = "returned") =>
        LET col == ColumnOf(inseqs, 1, 1)
            r == filters.snps[1][1]
        IN  /\ Cardinality(ResolvedBases(col)) < 2 => r = " "
            /\ (Cardinality(ResolvedBases(col)) >= 2
                  /\ Cardinality(Repeated(col)) = 1) => r = "-"
            /\ (Cardinality(ResolvedBases(col)) >= 2
                  /\ Cardinality(Repeated(col)) >= 2) => r = "*"

\* polymorphic sites of locus l inside the trimmed span of a read side
SpanSnps(sq, edg, l, side) ==
    LET row == SnpString(sq)[l]
        span == PySlice(row, edg[l][2 * side - 1], edg[l][2 * side])
    IN  Cardinality({c \in DOMAIN span : span[c] \in {"-", "*"}})

\* the claimed flag: some side present has more polymorphic sites in its
\* span than its max_SNPs_locus entry
ClaimSnpFail(pd, sq, edg, l) ==
    \E side \in SidesPresent(pd) :
        SpanSnps(sq, edg, l, side) > pd.max_SNPs_locus[side]

\* C12: filter_maxsnp returns one flag per locus, true iff on some read side
\* present the number of sites of the trimmed span annotated "-" or "*"
\* strictly exceeds that side's max_SNPs_locus entry.
C12_MaxSnp ==
    (entry = "filter_maxsnp" /\ Finished) =>
        /\ pc = "returned"
        /\ ret = "snpfilt"
        /\ DOMAIN filters.snpfilter = DOMAIN inseqs
        /\ \A l \in DOMAIN inseqs :
              filters.snpfilter[l] <=> ClaimSnpFail(paramsdict, superseqs, edges, l)

\* the result of get_edges for locus l when the locus is a chunk of its own
AloneEdges(pd, sq, spl, l) == GetEdges(pd, <<sq[l]>>, <<spl[l]>>)

\* C13: no per-locus result depends on the chunk size or on the loci that
\* share the chunk: the edge flag and the edge quadruple get_edges gives a
\* locus inside its chunk are the ones it gives the locus in a chunk of one.
C13_ChunkIndependent ==
    (entry = "get_edges" /\ pc = "returned") =>
        \A l \in DOMAIN inseqs :
            LET alone == AloneEdges(paramsdict, inseqs, splits.val, l)
            IN  /\ filters.edgfilter[l] = alone.edgefilter[1]
                /\ edges[l] = alone.edges[1]

\* the names the configuration excludes
ExcludedNames(pd) == pd.excludes \cup pd.outgroups

\* the store rows of the ready samples that are not excluded
ClaimRows(pd, dbsamples, smp) ==
    {k - 1 : k \in {j \in DOMAIN dbsamples :
                      /\ dbsamples[j].name \notin ExcludedNames(pd)
                      /\ \E i \in DOMAIN smp : smp[i].name = dbsamples[j].name}}

\* C14: select_samples, called by filter_all_clusters with the ready samples,
\* returns the store row of every ready sample that is not named in excludes
\* or outgroups and of no other (no error for an excluded name that is not a
\* sample), and make_outfiles hands no excluded sample to a converter.
C14_Selection ==
    /\ (entry = "run" /\ (pc = "fac_queue" \/ (pc = "raised" /\ exc = "ValueError"))) =>
          /\ exc = "none"
          /\ sidx = ClaimRows(paramsdict, db.dbsamples, samples)
    /\ (entry \in {"run", "make_outfiles"} /\ pc \in {"mo_loop", "returned"}) =>
          \A i \in DOMAIN samples : samples[i].name \notin ExcludedNames(paramsdict)

\* the fixed mapping from format name to converter
ClaimConverter(fmt) ==
    CASE fmt \in {"phy", "nex"} -> "phynex"
      [] fmt \in {"snps", "usnps", "str", "geno"} -> "SNP"
      [] OTHER -> fmt

\* the formats asked for, the wildcard standing for all supported formats
ClaimFormats(requested) ==
    IF \E i \in DOMAIN requested : requested[i] = "*" THEN OUTPUT_FORMATS
    ELSE requested

\* C15: make_outfiles invokes one converter per requested format, in order,
\* the one the fixed mapping gives (phy, nex -> phynex; snps, usnps, str,
\* geno -> SNP; any other name -> itself), the wildcard "*" standing for
\* OUTPUT_FORMATS: the converters invoked so far followed by those of the
\* formats still to do are the mapped request, and nothing is left to do
\* when make_outfiles returns.
C15_Dispatch ==
    (entry = "make_outfiles" /\ pc \in {"mo_loop", "returned"}) =>
        LET want == ClaimFormats(paramsdict.output_formats)
        IN  /\ Len(invoked) + Len(todo) = Len(want)
            /\ \A i \in DOMAIN invoked : invoked[i] = ClaimConverter(want[i])
            /\ \A j \in DOMAIN todo : todo[j] = want[Len(invoked) + j]
            /\ pc = "returned" => todo = <<>>

\* C15 witness: make_outfiles has returned from a wildcard request with one
\* converter invoked per supported format, aliases included.
C15_Witness ==
    /\ entry = "make_outfiles" /\ pc = "returned"
    /\ paramsdict.output_formats = <<"*">>
    /\ Len(invoked) = Len(OUTPUT_FORMATS)
    /\ invoked[2] = "phynex" /\ invoked[3] = "phynex"
    /\ invoked[4] = "SNP" /\ invoked[5] = "vcf"

\* the columns of a read side whose coverage meets the threshold of edge e
Meeting(pd, loc, split, side, e) ==
    {c \in SideCols(pd, loc, split, side) :
        Coverage(loc, c) >= ClaimThreshold(pd, loc, pd.edge_trimming[e])}

\* the first column of a read side
SideStart(split, side) == IF side = 1 THEN 1 ELSE split + SepLen + 1

\* C16: for coverage policies (2, 3, 4), on every locus get_edges does not
\* flag, the left edge of each read side present is the index (within the
\* side) of the leftmost column of the side whose coverage meets the edge's
\* threshold plus the length of the side's overhang, and the right edge is
\* the index of the rightmost such column minus that length.
C16_EdgeQuadruple ==
    (entry = "get_edges" /\ pc = "returned"
        /\ \A e \in 1..4 : paramsdict.edge_trimming[e] \in {2, 3, 4}) =>
        \A l \in DOMAIN inseqs :
            ~filters.edgfilter[l] =>
                \A side \in SidesPresent(paramsdict) :
                    LET left == Meeting(paramsdict, inseqs[l], splits.val[l], side, 2 * side - 1)
                        right == Meeting(paramsdict, inseqs[l], splits.val[l], side, 2 * side)
                        start == SideStart(splits.val[l], side)
                        cut == Len(paramsdict.restriction_overhangs[side])
                    IN  /\ left # {} /\ right # {}
                        /\ edges[l][2 * side - 1] = SetMin(left) - start + cut
                        /\ edges[l][2 * side] = SetMax(right) - start - cut

\* C17: at every site of a locus the symbol count_snps writes into the
\* annotation row is the symbol ucount, the classifier of the maximum-SNP
\* filter, gives the site column.
C17_OneClassification ==
    (entry = "count_snps" /\ pc = "returned") =>
        \A c \in 1..NSites(inseqs, 1) :
            filters.snps[1][c] = Ucount(ColumnOf(inseqs, 1, c))

====
